---- MODULE Spec2Model ----
(***************************************************************************)
(* Config (src/src/config.py): command-line parsing, inference setup,      *)
(* learning setup (continuation / from scratch) and the model directory    *)
(* it reads and writes.                                                    *)
(***************************************************************************)
EXTENDS Integers, Sequences, FiniteSets, TLC

VARIABLES
    fs,       \* the model directory: [dir, files, epochs]
    cfg,      \* the attributes of the Config object (vars(self))
    outcome,  \* how the last construction (or the running parse) ended
    trace,    \* what the last construction did: branches taken, artifacts loaded
    cli,      \* the argument list the last construction was given
    argv,     \* the argument list parse() is consuming
    held,     \* the settings the Config held when it wrote topology
    runs      \* training runs done by the driver so far

vars == <<fs, cfg, outcome, trace, cli, argv, held, runs>>

(***************************************************************************)
(* Python values. Each type has its own record shape, so that None, the    *)
(* string "None", 3 and "3" are four different values.                     *)
(***************************************************************************)
None == [none |-> TRUE]
StrV(v) == [s |-> v]
IntV(v) == [i |-> v]
FltV(v) == [f |-> v]        \* a float, in tenths
BoolV(v) == [b |-> v]
ObjV(kind, v) == [obj |-> kind, of |-> v]

IsNone(v) == "none" \in DOMAIN v
IsStr(v) == "s" \in DOMAIN v
IsInt(v) == "i" \in DOMAIN v
IsFlt(v) == "f" \in DOMAIN v
IsBool(v) == "b" \in DOMAIN v
IsRaise(v) == "raise" \in DOMAIN v

\* Python truth value, as used by `if not self.mdir`, `if self.tst`, `if not self.epoch`.
Truthy(v) ==
    IF IsNone(v) THEN FALSE
    ELSE IF IsStr(v) THEN v.s # ""
    ELSE IF IsInt(v) THEN v.i # 0
    ELSE IF IsFlt(v) THEN v.f # 0
    ELSE IF IsBool(v) THEN v.b
    ELSE TRUE

(***************************************************************************)
(* Bounds of the model.                                                    *)
(***************************************************************************)
MaxArgs == 4      \* longest argument list given to parse() on its own
MaxRuns == 3      \* training runs of the driver

\* range(999, 0, -1): the epochs the scans look for
MaxScan == 999

(***************************************************************************)
(* int(), float() and "{}".format() on the texts the model uses.           *)
(***************************************************************************)
IntLits == (0 .. 9) \cup {256, MaxScan}
Numeral == [n \in IntLits |-> ToString(n)]
DecimalTenths == ("0.0" :> 0) @@ ("0.3" :> 3) @@ ("0.5" :> 5) @@ ("0.9" :> 9) @@ ("1.0" :> 10)

ValueError == [raise |-> "ValueError"]
KeyError == [raise |-> "KeyError"]

PyInt(text) ==
    IF \E n \in IntLits : Numeral[n] = text
    THEN IntV(CHOOSE n \in IntLits : Numeral[n] = text)
    ELSE ValueError

PyFloat(text) ==
    IF text \in DOMAIN DecimalTenths THEN FltV(DecimalTenths[text])
    ELSE IF \E n \in IntLits : Numeral[n] = text
    THEN FltV(10 * (CHOOSE n \in IntLits : Numeral[n] = text))
    ELSE ValueError

\* "{}".format(val) for the values written to topology
Format(v) ==
    IF IsNone(v) THEN "None"
    ELSE IF IsStr(v) THEN v.s
    ELSE IF IsInt(v) THEN ToString(v.i)
    ELSE IF IsBool(v) THEN (IF v.b THEN "True" ELSE "False")
    ELSE IF IsFlt(v) THEN (CHOOSE d \in DOMAIN DecimalTenths : DecimalTenths[d] = v.f)
    ELSE "<object>"

(***************************************************************************)
(* The attributes of Config, in the order __init__ and learn() set them.   *)
(***************************************************************************)
FieldOrder ==
    << "usage",
       "src_voc", "src_tok", "tok_src", "tgt_voc", "tgt_tok", "tok_tgt",
       "src_emb", "tgt_emb", "src_voc_size", "tgt_voc_size",
       "src_emb_size", "tgt_emb_size", "mdir", "epoch", "trn", "dev", "tst",
       "output", "emb_src", "emb_tgt",
       "src_lstm_size", "tgt_lstm_size",
       "aggr", "r", "dropout", "lr", "lr_decay", "lr_method",
       "seq_size", "batch_size", "max_sents", "n_epochs", "last_epoch",
       "seed", "report_every", "debug", "mode",
       "quiet", "show_matrix", "show_svg", "show_last", "show_aggr", "show_align",
       "voc_src", "voc_tgt" >>

Fields == { FieldOrder[k] : k \in 1 .. Len(FieldOrder) }

DefaultCfg ==
    [ k \in Fields |->
        CASE k = "usage" -> StrV("usage")
          [] k = "output" -> StrV("-")
          [] k \in {"src_lstm_size", "tgt_lstm_size"} -> IntV(256)
          [] k = "aggr" -> StrV("lse")
          [] k = "r" -> FltV(10)
          [] k = "dropout" -> FltV(3)
          [] k = "lr" -> FltV(10)
          [] k = "lr_decay" -> FltV(9)
          [] k = "lr_method" -> StrV("adagrad")
          [] k = "seq_size" -> IntV(50)
          [] k = "batch_size" -> IntV(32)
          [] k = "max_sents" -> IntV(0)
          [] k = "n_epochs" -> IntV(1)
          [] k = "last_epoch" -> IntV(0)
          [] k = "seed" -> IntV(1234)
          [] k = "report_every" -> IntV(1000)
          [] k = "mode" -> StrV("alignment")
          [] k \in {"debug", "quiet", "show_matrix", "show_svg", "show_last",
                    "show_aggr", "show_align"} -> BoolV(FALSE)
          [] OTHER -> None ]

(***************************************************************************)
(* parse(): the options, by the conversion applied to their value.         *)
(***************************************************************************)
StrOpts == {"mdir", "src_tok", "tgt_tok", "src_voc", "tgt_voc", "src_emb", "tgt_emb",
            "trn", "dev", "tst", "output", "aggr", "lr_method", "mode"}
IntOpts == {"epoch", "src_voc_size", "tgt_voc_size", "src_emb_size", "tgt_emb_size",
            "max_sents", "seed", "report_every", "n_epochs",
            "src_lstm_size", "tgt_lstm_size", "seq_size", "batch_size"}
FloatOpts == {"r", "dropout", "lr", "lr_decay"}
ValueOpts == StrOpts \cup IntOpts \cup FloatOpts
FlagOpts == {"debug", "show_matrix", "show_svg", "show_aggr", "show_last", "show_align"}

\* the token of an option: "-" + name, and -q for quiet
OptTok == [k \in ValueOpts \cup FlagOpts |-> "-" \o k] @@ ("quiet" :> "-q")
ValueToks == { OptTok[k] : k \in ValueOpts }
FlagToks == { OptTok[k] : k \in FlagOpts \cup {"quiet"} }
TokField == [t \in ValueToks \cup FlagToks |-> CHOOSE k \in DOMAIN OptTok : OptTok[k] = t]
FieldOf(tok) == TokField[tok]

Convert(k, text) ==
    IF k \in IntOpts THEN PyInt(text)
    ELSE IF k \in FloatOpts THEN PyFloat(text)
    ELSE StrV(text)

\* One iteration of the while loop of parse(), on p = [cfg, argv, status] with
\* argv not empty. tok and, for an option with a value, the value are popped
\* before anything else happens.
ParseStepSkipUnknown(p) ==
    LET tok == Head(p.argv)
        rest == Tail(p.argv)
    IN  IF tok \in ValueToks /\ Len(rest) > 0
        THEN LET v == Convert(FieldOf(tok), Head(rest))
             IN  IF IsRaise(v)
                 THEN [p EXCEPT !.argv = Tail(rest), !.status = "raise"]
                 ELSE [p EXCEPT !.argv = Tail(rest), !.cfg[FieldOf(tok)] = v]
        ELSE IF tok \in FlagToks
        THEN [p EXCEPT !.argv = rest, !.cfg[FieldOf(tok)] = BoolV(TRUE)]
        ELSE IF tok = "-h"
        THEN [p EXCEPT !.argv = rest, !.status = "exit0"]
        ELSE [p EXCEPT !.argv = rest]

ParseStep(p) ==
    LET tok == Head(p.argv)
        rest == Tail(p.argv)
    IN  IF tok \in ValueToks /\ Len(rest) > 0
        THEN LET v == Convert(FieldOf(tok), Head(rest))
             IN  IF IsRaise(v)
                 THEN [p EXCEPT !.argv = Tail(rest), !.status = "raise"]
                 ELSE [p EXCEPT !.argv = Tail(rest), !.cfg[FieldOf(tok)] = v]
        ELSE IF tok \in FlagToks
        THEN [p EXCEPT !.argv = rest, !.cfg[FieldOf(tok)] = BoolV(TRUE)]
        ELSE IF tok = "-h"
        THEN [p EXCEPT !.argv = rest, !.status = "exit0"]
        ELSE [p EXCEPT !.argv = rest, !.status = "exit1"]

\* parse(argv) run to its end: status "run" means it returned.
RECURSIVE ParseLoop(_)
ParseLoop(p) ==
    IF p.status # "run" \/ p.argv = << >> THEN p ELSE ParseLoop(ParseStep(p))

Parse(c, args) == ParseLoop([cfg |-> c, argv |-> args, status |-> "run"])

(***************************************************************************)
(* Files. ExtFiles are the files outside the model directory that the      *)
(* command line can name; fs is the model directory -mdir names.           *)
(***************************************************************************)
VocFile(n) == [voc |-> n]
JsonFile(j) == [json |-> j]
DataFile == [data |-> TRUE]
Marker == [marker |-> TRUE]

ExtFiles ==
    ("v.src" :> VocFile(3)) @@ ("v.tgt" :> VocFile(5))
    @@ ("bpe.src" :> VocFile(7)) @@ ("bpe.tgt" :> VocFile(6))
    @@ ("good.json" :> JsonFile("vocabulary" :> "bpe.src"))
    @@ ("tgt.json" :> JsonFile("vocabulary" :> "bpe.tgt"))
    @@ ("nokey.json" :> JsonFile("mode" :> "aggressive"))
    @@ ("trn.txt" :> DataFile) @@ ("tst.txt" :> DataFile)

ModelDirs == {"m"}
NoDir == [dir |-> FALSE, files |-> << >>, epochs |-> {}]

\* os.path.exists(self.mdir), os.path.exists(self.mdir + "/" + name)
DirExists(f, mdir) == mdir \in ModelDirs /\ f.dir
InDir(f, mdir, name) == DirExists(f, mdir) /\ name \in DOMAIN f.files
\* os.path.exists(self.mdir + "/epoch{}.index".format(e))
EpochExists(f, mdir, e) == DirExists(f, mdir) /\ e \in f.epochs
\* os.path.exists(path) for a path of the command line
ExtExists(path) == path \in DOMAIN ExtFiles

PutFile(f, name, content) == [f EXCEPT !.files = (name :> content) @@ @]

(***************************************************************************)
(* A construction in progress: r = [cfg, fs, status, trace, src, tgt,      *)
(* held]. status is "run" until sys.exit or an uncaught exception ends it, *)
(* and a statement runs only while it is;                                  *)
(* src and tgt are the locals src_voc and tgt_voc of inference()/learn().  *)
(***************************************************************************)
Exit1(r) == [r EXCEPT !.status = "exit1"]
Raise(r) == [r EXCEPT !.status = "raise"]
Did(r, what) == [r EXCEPT !.trace = @ \cup {what}]
Running(r) == r.status = "run"

\* dataset.check_dataset(file): the data file must be there
CheckDataset(r, file) == IF ExtExists(file.s) THEN r ELSE Exit1(r)

\* dataset.Vocab(path): loads a vocabulary file and exposes its size
Vocab(r, field, content) ==
    IF "voc" \in DOMAIN content
    THEN Did([r EXCEPT !.cfg[field] = ObjV("Vocab", content.voc)], field)
    ELSE Raise(r)

NoFile == [missing |-> TRUE]
ExtContent(path) ==
    IF IsStr(path) /\ ExtExists(path.s) THEN ExtFiles[path.s] ELSE NoFile
DirContent(f, mdir, name) ==
    IF InDir(f, mdir, name) THEN f.files[name] ELSE NoFile

\* dataset.Embeddings(file, voc, length).dim: read from file, or synthesized
\* with the given dimension
EmbeddingsDim(file, size) ==
    IF Truthy(file)
    THEN (IF "emb" \in DOMAIN ExtContent(file) THEN IntV(ExtContent(file).emb) ELSE ValueError)
    ELSE IF IsInt(size) THEN size ELSE ValueError

(***************************************************************************)
(* The scan for the latest epoch: for e in range(999, 0, -1), the first e  *)
(* whose index file exists.                                                *)
(***************************************************************************)
ScanEpochs(f, mdir) == { e \in f.epochs : e \in 1 .. MaxScan /\ EpochExists(f, mdir, e) }
LatestOf(S) == CHOOSE e \in S : \A y \in S : y <= e

(***************************************************************************)
(* The topology file: one line "opt val" per selected attribute.           *)
(***************************************************************************)
StartsWithSrc == {"src_voc", "src_tok", "src_emb", "src_voc_size", "src_emb_size",
                  "src_lstm_size"}
StartsWithTgt == {"tgt_voc", "tgt_tok", "tgt_emb", "tgt_voc_size", "tgt_emb_size",
                  "tgt_lstm_size"}

TopologyKeyWithDropout(opt) ==
    opt \in StartsWithSrc \/ opt \in StartsWithTgt \/ opt = "aggr" \/ opt = "mode"
    \/ opt = "dropout"

TopologyKey(opt) ==
    opt \in StartsWithSrc \/ opt \in StartsWithTgt \/ opt = "aggr" \/ opt = "mode"

TopologyKeys == { k \in Fields : TopologyKey(k) }

\* str.split() of a written value: its whitespace-separated words
Words(text) == IF text = "" THEN << >> ELSE << text >>

TopologyLines(c) ==
    LET keys == SelectSeq(FieldOrder, TopologyKey)
    IN  [ n \in 1 .. Len(keys) |-> [opt |-> keys[n], val |-> Format(c[keys[n]])] ]

WriteTopology(r) ==
    IF ~Running(r) THEN r ELSE
    [r EXCEPT !.fs = PutFile(@, "topology", [lines |-> TopologyLines(r.cfg)]),
              !.held = [k \in TopologyKeys |-> r.cfg[k]],
              !.trace = @ \cup {"write_topology"}]

\* for line in f: opt, val = line.split(); argv.append('-'+opt); argv.append(val)
RECURSIVE LinesArgv(_)
LinesArgv(lines) ==
    IF lines = << >> THEN << >>
    ELSE << "-" \o Head(lines).opt >> \o Words(Head(lines).val) \o LinesArgv(Tail(lines))

Unpackable(lines) == \A n \in 1 .. Len(lines) : Len(Words(lines[n].val)) = 1

TopologyArgvNone(r) == << >>

TopologyArgv(r) == LinesArgv(r.fs.files["topology"].lines)

\* the topology is read and parsed over the options of the command line
ParseTopology(r) ==
    IF ~Running(r) THEN r ELSE
    IF ~Unpackable(r.fs.files["topology"].lines) THEN Raise(r)
    ELSE LET p == Parse(r.cfg, TopologyArgv(r))
         IN  [r EXCEPT !.cfg = p.cfg, !.status = p.status,
                       !.trace = @ \cup {"parse_topology"}]

(***************************************************************************)
(* Steps shared by inference() and the continuation branch of learn().     *)
(***************************************************************************)
Mdir(r) == r.cfg.mdir.s

CheckTopology(r) ==
    IF ~Running(r) THEN r ELSE
    IF InDir(r.fs, Mdir(r), "topology") THEN r ELSE Exit1(r)

\* tokenization_<side>.json, when the directory has it, names the vocabulary
\* file; when it has not, inference() clears tok_<side> and learn() clears
\* <side>_tok.
LoadTok(r, side, cleared) ==
    LET name == "tokenization_" \o side \o ".json"
        file == DirContent(r.fs, Mdir(r), name)
    IN  IF InDir(r.fs, Mdir(r), name)
        THEN IF "json" \notin DOMAIN file THEN Raise(r)
             ELSE LET r1 == [r EXCEPT !.cfg["tok_" \o side] = ObjV("json", file.json)]
                  IN  IF "vocabulary" \in DOMAIN file.json
                      THEN [r1 EXCEPT ![side] = file.json["vocabulary"]]
                      ELSE Raise(r1)
        ELSE [r EXCEPT !.cfg[cleared] = None]

CheckVoc(r, side) == IF InDir(r.fs, Mdir(r), r[side]) THEN r ELSE Exit1(r)

LoadVocabs(r) ==
    IF ~Running(r) THEN r ELSE
    LET r1 == Vocab(r, "voc_src", DirContent(r.fs, Mdir(r), r.src))
    IN  IF r1.status # "run" THEN r1
        ELSE Vocab(r1, "voc_tgt", DirContent(r1.fs, Mdir(r1), r1.tgt))

(***************************************************************************)
(* inference()                                                             *)
(***************************************************************************)
InferenceReset(r) ==
    [r EXCEPT !.cfg.dropout = FltV(0), !.cfg.seq_size = IntV(0),
              !.trace = @ \cup {"inference"}]

ResolveEpoch(r) ==
    IF ~Running(r) THEN r ELSE
    IF Truthy(r.cfg.epoch) THEN r
    ELSE LET S == ScanEpochs(r.fs, Mdir(r))
         IN  IF S = {} THEN Exit1(r) ELSE [r EXCEPT !.cfg.epoch = IntV(LatestOf(S))]

OpenOutput(r) ==
    IF ~Running(r) THEN r ELSE
    IF r.cfg.output = StrV("-")
    THEN [r EXCEPT !.cfg.output = ObjV("stream", "stdout")]
    ELSE [r EXCEPT !.cfg.output = ObjV("file", r.cfg.output.s)]

CheckEpochFile(r) ==
    IF ~Running(r) THEN r ELSE
    IF EpochExists(r.fs, Mdir(r), r.cfg.epoch.i) THEN r ELSE Exit1(r)

InferenceTokSrc(r) ==
    IF ~Running(r) THEN r ELSE
    LoadTok(r, "src", "tok_src")
InferenceTokTgt(r) ==
    IF ~Running(r) THEN r ELSE
    LoadTok(r, "tgt", "tok_tgt")
CheckVocSrc(r) ==
    IF ~Running(r) THEN r ELSE
    CheckVoc(r, "src")
CheckVocTgt(r) ==
    IF ~Running(r) THEN r ELSE
    CheckVoc(r, "tgt")
CheckTst(r) ==
    IF ~Running(r) THEN r ELSE
    CheckDataset(r, r.cfg.tst)

Inference(r) ==
    LET r1 == InferenceReset(r)
        r2 == ResolveEpoch(r1)
        r3 == CheckTst(r2)
        r4 == OpenOutput(r3)
        r5 == CheckEpochFile(r4)
        r6 == CheckTopology(r5)
        r7 == InferenceTokSrc(r6)
        r8 == CheckVocSrc(r7)
        r9 == InferenceTokTgt(r8)
        r10 == ParseTopology(r9)
    IN  LoadVocabs(r10)

(***************************************************************************)
(* learn(): continuation                                                   *)
(***************************************************************************)
LearnTokSrc(r) ==
    IF ~Running(r) THEN r ELSE
    LoadTok(r, "src", "src_tok")
LearnTokTgt(r) ==
    IF ~Running(r) THEN r ELSE
    LoadTok(r, "tgt", "tgt_tok")

CheckCheckpoint(r) ==
    IF ~Running(r) THEN r ELSE
    IF InDir(r.fs, Mdir(r), "checkpoint") THEN r ELSE Exit1(r)

UpdateLastEpoch(r) ==
    IF ~Running(r) THEN r ELSE
    LET S == ScanEpochs(r.fs, Mdir(r))
    IN  IF S = {} THEN r ELSE [r EXCEPT !.cfg.last_epoch = IntV(LatestOf(S))]

Continuation(r) ==
    LET r1 == CheckTopology(Did(r, "continuation"))
        r2 == LearnTokSrc(r1)
        r3 == CheckVocSrc(r2)
        r4 == LearnTokTgt(r3)
        r5 == CheckVocTgt(r4)
        r6 == CheckCheckpoint(r5)
        r7 == ParseTopology(r6)
        r8 == LoadVocabs(r7)
    IN  UpdateLastEpoch(r8)

(***************************************************************************)
(* learn(): from scratch                                                   *)
(***************************************************************************)
\* -<side>_tok: the json is loaded and, when -<side>_voc is not given, names
\* the vocabulary file
ScratchTok(r, side) ==
    LET tok == r.cfg[side \o "_tok"]
        file == ExtContent(tok)
    IN  IF Truthy(tok)
        THEN IF ~ExtExists(tok.s) THEN Exit1(r)
             ELSE IF "json" \notin DOMAIN file THEN Raise(r)
             ELSE LET r1 == [r EXCEPT !.cfg["tok_" \o side] = ObjV("json", file.json)]
                  IN  IF Truthy(r.cfg[side \o "_voc"]) THEN r1
                      ELSE IF "vocabulary" \in DOMAIN file.json
                      THEN [r1 EXCEPT !.cfg[side \o "_voc"] = StrV(file.json["vocabulary"])]
                      ELSE Raise(r1)
        ELSE [r EXCEPT !.cfg["tok_" \o side] = None]

ScratchVocab(r, side) == Vocab(r, "voc_" \o side, ExtContent(r.cfg[side \o "_voc"]))

VocSizes(r) ==
    IF ~Running(r) THEN r ELSE
    [r EXCEPT !.cfg.src_voc_size = IntV(r.cfg.voc_src.of),
              !.cfg.tgt_voc_size = IntV(r.cfg.voc_tgt.of)]

MakeDirs(r) ==
    IF ~Running(r) THEN r ELSE
    IF DirExists(r.fs, Mdir(r)) THEN r ELSE Did([r EXCEPT !.fs.dir = TRUE], "makedirs")

\* copyfile of the vocabulary, and of the tokenization json when there is one
CopyVoc(r, side) ==
    LET voc == ExtFiles[r.cfg[side \o "_voc"].s]
        tok == r.cfg[side \o "_tok"]
        json == r.cfg["tok_" \o side].of
    IN  IF Truthy(tok)
        THEN IF "vocabulary" \notin DOMAIN json THEN Raise(r)
             ELSE [r EXCEPT !.fs = PutFile(PutFile(@, json["vocabulary"], voc),
                                           "tokenization_" \o side \o ".json",
                                           ExtFiles[tok.s])]
        ELSE [r EXCEPT !.fs = PutFile(@, "vocab_" \o side, voc)]

ReadEmbeddings(r, side) ==
    LET dim == EmbeddingsDim(r.cfg[side \o "_emb"], r.cfg[side \o "_emb_size"])
    IN  IF IsRaise(dim) THEN Raise(r)
        ELSE [r EXCEPT !.cfg["emb_" \o side] = ObjV("Embeddings", dim.i),
                       !.cfg[side \o "_emb_size"] = dim]

ScratchTokSrc(r) == ScratchTok(r, "src")
ScratchTokTgt(r) ==
    IF ~Running(r) THEN r ELSE
    ScratchTok(r, "tgt")
ScratchVocabSrc(r) ==
    IF ~Running(r) THEN r ELSE
    ScratchVocab(r, "src")
ScratchVocabTgt(r) ==
    IF ~Running(r) THEN r ELSE
    ScratchVocab(r, "tgt")
CopyVocSrc(r) ==
    IF ~Running(r) THEN r ELSE
    CopyVoc(r, "src")
CopyVocTgt(r) ==
    IF ~Running(r) THEN r ELSE
    CopyVoc(r, "tgt")
ReadEmbeddingsSrc(r) ==
    IF ~Running(r) THEN r ELSE
    ReadEmbeddings(r, "src")
ReadEmbeddingsTgt(r) ==
    IF ~Running(r) THEN r ELSE
    ReadEmbeddings(r, "tgt")

Scratch(r) ==
    LET r1 == ScratchTokSrc(Did(r, "scratch"))
        r2 == ScratchVocabSrc(r1)
        r3 == ScratchTokTgt(r2)
        r4 == ScratchVocabTgt(r3)
        r5 == VocSizes(r4)
        r6 == MakeDirs(r5)
        r7 == CopyVocSrc(r6)
        r8 == CopyVocTgt(r7)
        r9 == ReadEmbeddingsSrc(r8)
        r10 == ReadEmbeddingsTgt(r9)
    IN  WriteTopology(r10)

(***************************************************************************)
(* learn() and __init__                                                    *)
(***************************************************************************)
CheckTrn(r) == CheckDataset(r, r.cfg.trn)
CheckDev(r) ==
    IF ~Running(r) THEN r ELSE
    IF IsNone(r.cfg.dev) THEN r ELSE CheckDataset(r, r.cfg.dev)

ContinuesIfTopology(r) == InDir(r.fs, Mdir(r), "topology")

Continues(r) == DirExists(r.fs, Mdir(r))

LearnBranch(r) ==
    IF ~Running(r) THEN r ELSE
    IF Continues(r) THEN Continuation(r) ELSE Scratch(r)

Learn(r) ==
    LET r1 == CheckTrn(Did(r, "learn"))
        r2 == CheckDev(r1)
    IN  LearnBranch(r2)

CheckMdir(r) ==
    IF ~Running(r) THEN r ELSE
    IF Truthy(r.cfg.mdir) THEN r ELSE Exit1(r)
RunInference(r) ==
    IF ~Running(r) THEN r ELSE
    IF Truthy(r.cfg.tst) THEN Inference(r) ELSE r
RunLearn(r) ==
    IF ~Running(r) THEN r ELSE
    IF Truthy(r.cfg.trn) THEN Learn(r) ELSE r

\* Config(argv): argv[0] is the program; the result is the construction at its
\* end, with status "run" when the constructor returned.
Config(args, f, h) ==
    LET p == Parse(DefaultCfg, Tail(args))
        r0 == [cfg |-> p.cfg, fs |-> f, status |-> p.status, trace |-> {},
               src |-> "vocab_src", tgt |-> "vocab_tgt", held |-> h]
        r1 == CheckMdir(r0)
        r2 == RunInference(r1)
    IN  RunLearn(r2)

(***************************************************************************)
(* The command lines given to Config.                                      *)
(***************************************************************************)
Prog == << "similarity" >>
MdirArg == << "-mdir", "m" >>
TrnArg == << "-trn", "trn.txt" >>
TstArg == << "-tst", "tst.txt" >>

SrcArgs == { << >>, << "-src_voc", "v.src" >>, << "-src_tok", "good.json" >>,
             << "-src_tok", "nokey.json", "-src_voc", "v.src" >>,
             << "-src_tok", "missing.json" >> }
TgtArgs == { << "-tgt_voc", "v.tgt" >>, << "-tgt_tok", "tgt.json" >> }
EmbArgs == { << >>, << "-src_emb_size", "4", "-tgt_emb_size", "4" >> }
ArchArgs == { << >>, << "-aggr", "sum", "-src_lstm_size", "8" >> }
EpochsArgs == { << >>, << "-n_epochs", "999" >> }
EpochArgs == { << >>, << "-epoch", "0" >>, << "-epoch", "1" >>, << "-epoch", "2" >> }
HyperArgs == { << >>, << "-dropout", "0.5", "-seq_size", "9" >> }

LearnLines ==
    { Prog \o MdirArg \o TrnArg \o s \o t \o e \o a \o n :
        s \in SrcArgs, t \in TgtArgs, e \in EmbArgs, a \in ArchArgs, n \in EpochsArgs }
InferLines ==
    { Prog \o MdirArg \o TstArg \o e \o h \o a :
        e \in EpochArgs, h \in HyperArgs, a \in ArchArgs }
BothLines ==
    { Prog \o MdirArg \o TstArg \o TrnArg \o h \o a : h \in HyperArgs, a \in ArchArgs }
OtherLines ==
    { Prog, Prog \o MdirArg, Prog \o TrnArg, Prog \o TstArg, Prog \o << "-h" >>,
      Prog \o MdirArg \o << "-trn", "nodata.txt" >>, Prog \o MdirArg \o << "-trn" >> }

CommandLines == LearnLines \cup InferLines \cup BothLines \cup OtherLines

Ended(status) == IF status = "run" THEN "ok" ELSE status

(***************************************************************************)
(* State machine of the model directory: constructions of Config and the   *)
(* training runs of the driver between them.                               *)
(***************************************************************************)
Init ==
    /\ fs = NoDir
    /\ cfg = DefaultCfg
    /\ outcome = "none"
    /\ trace = {}
    /\ cli = << >>
    /\ argv = << >>
    /\ held = << >>
    /\ runs = 0

\* One run of the program starts: Config(sys.argv)
Construct ==
    /\ outcome = "none"
    /\ \E args \in CommandLines :
        \E r \in { Config(args, fs, held) } :
            /\ fs' = r.fs
            /\ cfg' = r.cfg
            /\ outcome' = Ended(r.status)
            /\ trace' = r.trace
            /\ cli' = Tail(args)
            /\ held' = r.held
            /\ UNCHANGED <<argv, runs>>

\* The run ends (sys.exit, an uncaught exception, or the driver is done with
\* the Config) without touching the model directory.
Exit ==
    /\ outcome # "none"
    /\ outcome' = "none"
    /\ trace' = {}
    /\ cfg' = DefaultCfg
    /\ cli' = << >>
    /\ UNCHANGED <<fs, argv, held, runs>>

\* The driver, given a Config built for learning, trains n_epochs epochs after
\* last_epoch and leaves the checkpoint and the index file of the last one.
Train ==
    /\ outcome = "ok"
    /\ Truthy(cfg.trn)
    /\ runs < MaxRuns
    /\ fs' = [PutFile(fs, "checkpoint", Marker)
                 EXCEPT !.epochs = @ \cup {cfg.last_epoch.i + cfg.n_epochs.i}]
    /\ runs' = runs + 1
    /\ outcome' = "none"
    /\ trace' = {}
    /\ cfg' = DefaultCfg
    /\ cli' = << >>
    /\ UNCHANGED <<argv, held>>

Next == Construct \/ Train \/ Exit

Spec == Init /\ [][Next]_vars

(***************************************************************************)
(* The same, with a user who removes files from the model directory.       *)
(***************************************************************************)
Removable == {"topology", "vocab_src", "vocab_tgt", "bpe.src", "bpe.tgt"}

EnvRemove ==
    /\ outcome = "none"
    /\ \E name \in Removable :
        /\ name \in DOMAIN fs.files
        /\ fs' = [fs EXCEPT !.files = [n \in DOMAIN fs.files \ {name} |-> fs.files[n]]]
        /\ UNCHANGED <<cfg, outcome, trace, cli, argv, held, runs>>

NextEnv == Construct \/ Train \/ Exit \/ EnvRemove

SpecEnv == Init /\ [][NextEnv]_vars

(***************************************************************************)
(* parse() on its own, one loop iteration per step.                        *)
(***************************************************************************)
Tokens == {"-mdir", "-epoch", "-dropout", "-debug", "-q", "-h", "-bogus", "m", "2", "x"}

RECURSIVE ArgLists(_)
ArgLists(n) ==
    IF n = 0 THEN { << >> }
    ELSE ArgLists(n - 1) \cup { << t >> \o a : t \in Tokens, a \in { b \in ArgLists(n - 1) : Len(b) = n - 1 } }

InitParse ==
    /\ argv \in ArgLists(MaxArgs)
    /\ cli = argv
    /\ cfg = DefaultCfg
    /\ outcome = "run"
    /\ fs = NoDir
    /\ trace = {}
    /\ held = << >>
    /\ runs = 0

\* while len(argv): one iteration
ParseIter ==
    /\ outcome = "run"
    /\ argv # << >>
    /\ LET p == ParseStep([cfg |-> cfg, argv |-> argv, status |-> "run"])
       IN  /\ cfg' = p.cfg
           /\ argv' = p.argv
           /\ outcome' = p.status
    /\ UNCHANGED <<fs, trace, cli, held, runs>>

\* the loop ends on the empty list
ParseReturn ==
    /\ outcome = "run"
    /\ argv = << >>
    /\ outcome' = "done"
    /\ UNCHANGED <<fs, cfg, trace, cli, argv, held, runs>>

NextParse == ParseIter \/ ParseReturn

\* the loop is sequential code: it keeps running until it returns or exits
SpecParse == InitParse /\ [][NextParse]_vars /\ WF_vars(NextParse)

(***************************************************************************)
(* Properties.                                                             *)
(***************************************************************************)
Constructed == outcome \in {"ok", "exit0", "exit1", "raise"}
HasFile(name) == fs.dir /\ name \in DOMAIN fs.files
Topology == fs.files["topology"].lines
ArchSettings == StartsWithSrc \cup StartsWithTgt \cup {"aggr", "mode"}
Passed(opt) == \E n \in 1 .. Len(cli) - 1 : cli[n] = opt
PassedValue(opt) == cli[(CHOOSE n \in 1 .. Len(cli) - 1 : cli[n] = opt) + 1]
Greatest(S) == CHOOSE e \in S : \A y \in S : y <= e

\* a setup that read an existing directory and returned a Config
LaterSetup == outcome = "ok" /\ ("inference" \in trace \/ "continuation" \in trace)

\* C1: once a from-scratch setup has written topology, no construction rewrites
\* it, and after every later inference or continuation setup each
\* src*/tgt*/aggr/mode setting of the Config is the value recorded in topology.
C1_TopologyIsSourceOfTruth ==
    /\ [](LaterSetup =>
            /\ \A k \in ArchSettings : \E n \in 1 .. Len(Topology) : Topology[n].opt = k
            /\ \A n \in 1 .. Len(Topology) :
                  Format(cfg[Topology[n].opt]) = Topology[n].val)
    /\ [][HasFile("topology") => (HasFile("topology"))' /\ Topology' = Topology]_vars

\* C1 witness: a later setup given -aggr sum on a directory recorded with lse
C1_Witness ==
    /\ LaterSetup
    /\ Passed("-aggr") /\ PassedValue("-aggr") = "sum"
    /\ cfg.aggr = StrV("lse")
    /\ \E n \in 1 .. Len(Topology) : Topology[n] = [opt |-> "aggr", val |-> "lse"]

\* C2: after a later setup, each src*/tgt*/aggr/mode setting is exactly the
\* value the Config held when topology was written, None and integers
\* included, and every key of topology is an option parse() accepts.
C2_TopologyRoundTrip ==
    /\ LaterSetup => \A k \in ArchSettings : cfg[k] = held[k]
    /\ HasFile("topology") =>
          \A n \in 1 .. Len(Topology) : ("-" \o Topology[n].opt) \in ValueToks

\* C3 as stated: a learning setup whose data files are there, on a directory
\* that is absent or was left by a completed setup, takes the continuation path
\* exactly when the directory holds a topology file and a checkpoint, and the
\* fresh start otherwise.
C3_ContinuationIffTopologyAndCheckpoint ==
    [][(/\ outcome = "none"
        /\ trace' \cap {"continuation", "scratch"} # {}
        /\ fs.dir => HasFile("topology")) =>
          /\ ("continuation" \in trace') <=> (HasFile("topology") /\ HasFile("checkpoint"))
          /\ ("scratch" \in trace') <=> ~(HasFile("topology") /\ HasFile("checkpoint"))]_vars

\* C3 amended: learning takes the continuation path exactly when the model
\* directory exists and the fresh start exactly when it does not; on an existing
\* directory without topology or checkpoint no Config is returned.
C3_ContinuationIffDirExists ==
    [][(outcome = "none" /\ trace' \cap {"continuation", "scratch"} # {}) =>
          /\ ("continuation" \in trace') <=> fs.dir
          /\ ("scratch" \in trace') <=> ~fs.dir
          /\ (fs.dir /\ ~(HasFile("topology") /\ HasFile("checkpoint"))) => outcome' # "ok"
          /\ ("write_topology" \in trace') => ~fs.dir]_vars

\* C3 witness: the continuation path taken on a directory with topology and no
\* checkpoint ends with exit status 1
C3_Witness ==
    /\ outcome = "exit1"
    /\ "continuation" \in trace
    /\ HasFile("topology")
    /\ ~HasFile("checkpoint")

\* C4: a construction returns only if -mdir and one of -trn, -tst are set, and
\* without -mdir it exits with status 1 before inference() or learn().
C4_StarredOptionsRequired ==
    /\ outcome = "ok" => Truthy(cfg.mdir) /\ (Truthy(cfg.trn) \/ Truthy(cfg.tst))
    /\ (Constructed /\ ~Passed("-mdir") /\ outcome # "exit0") =>
          outcome = "exit1" /\ trace = {}

\* C5: after a successful continuation setup last_epoch is the greatest epoch
\* whose index file exists, and 0 when there is none.
C5_LastEpochIsGreatest ==
    (outcome = "ok" /\ "continuation" \in trace) =>
        cfg.last_epoch = IntV(IF fs.epochs = {} THEN 0 ELSE Greatest(fs.epochs))

\* C6: after a successful inference setup epoch is the -epoch value when one was
\* passed, the greatest existing epoch otherwise, and its index file exists;
\* the setup exits with status 1 when the file, or any epoch file, is missing.
C6_EpochUsed ==
    /\ (outcome = "ok" /\ "inference" \in trace) =>
          /\ Passed("-epoch") => Numeral[cfg.epoch.i] = PassedValue("-epoch")
          /\ ~Passed("-epoch") => cfg.epoch.i = Greatest(fs.epochs)
          /\ cfg.epoch.i \in fs.epochs
    /\ (Constructed /\ "inference" \in trace
        /\ (fs.epochs = {}
            \/ (Passed("-epoch") /\ \A e \in fs.epochs : Numeral[e] # PassedValue("-epoch"))))
          => outcome = "exit1"

\* the vocabulary file names of the directory: vocab_src/vocab_tgt, or the
\* "vocabulary" entry of the tokenization json
VocName(side) ==
    IF HasFile("tokenization_" \o side \o ".json")
    THEN fs.files["tokenization_" \o side \o ".json"].json["vocabulary"]
    ELSE "vocab_" \o side

\* C7: in inference and in continuation alike, a missing topology, source
\* vocabulary or target vocabulary file ends the setup with exit status 1
\* before topology is parsed or a Vocab is constructed.
C7_PreconditionsBeforeLoading ==
    (/\ Constructed
     /\ "inference" \in trace \/ "continuation" \in trace
     /\ ~HasFile("topology") \/ ~HasFile(VocName("src")) \/ ~HasFile(VocName("tgt")))
    => /\ outcome = "exit1"
       /\ trace \cap {"parse_topology", "voc_src", "voc_tgt"} = {}

\* C8: a model directory that exists holds a topology file, whatever became of
\* the from-scratch setup that created it.
C8_InitializationAllOrNothing == fs.dir => "topology" \in DOMAIN fs.files

\* C9: after every successful inference setup dropout is 0.0 and seq_size is 0,
\* whatever the command line gave.
C9_InferenceResets ==
    (outcome = "ok" /\ "inference" \in trace) =>
        cfg.dropout = FltV(0) /\ cfg.seq_size = IntV(0)

\* C9 witness: a successful inference given -dropout 0.5 -seq_size 9
C9_Witness ==
    /\ outcome = "ok"
    /\ "inference" \in trace
    /\ Passed("-dropout") /\ PassedValue("-dropout") = "0.5"
    /\ Passed("-seq_size") /\ PassedValue("-seq_size") = "9"
    /\ cfg.dropout = FltV(0)

(***************************************************************************)
(* parse(): what the token at which a run of parse() stopped was, and what *)
(* an iteration is to assign.                                              *)
(***************************************************************************)
WithValue == {"-mdir", "-epoch", "-dropout"}
Flags == {"-debug", "-q"}
Numeric == {"-epoch", "-dropout"}
Attribute == ("-mdir" :> "mdir") @@ ("-epoch" :> "epoch") @@ ("-dropout" :> "dropout")
             @@ ("-debug" :> "debug") @@ ("-q" :> "quiet")
Assigned(opt, text) ==
    CASE opt = "-mdir" -> StrV(text)
      [] opt = "-epoch" /\ text = "2" -> IntV(2)
      [] opt = "-dropout" /\ text = "2" -> FltV(20)
      [] OTHER -> None
Consumed == Len(cli) - Len(argv)
Suffix(n) == SubSeq(cli, n, Len(cli))

\* the run stopped at the token just popped
StoppedAtUnparsed ==
    /\ Consumed >= 1
    /\ \/ cli[Consumed] \notin WithValue \cup Flags \cup {"-h"}
       \/ cli[Consumed] \in WithValue /\ Consumed = Len(cli)
StoppedAtHelp == Consumed >= 1 /\ cli[Consumed] = "-h"
StoppedAtBadNumber ==
    /\ Consumed >= 2
    /\ cli[Consumed - 1] \in Numeric
    /\ cli[Consumed] # "2"

\* an iteration that leaves the loop running consumed a recognised option and
\* assigned it; a flag is only ever set to True
IterationAssigns ==
    (outcome = "run" /\ argv # << >>) =>
       /\ Len(argv') < Len(argv)
       /\ argv' = Suffix(Len(cli) - Len(argv') + 1)
       /\ outcome' = "run" =>
             \/ /\ Head(argv) \in Flags
                /\ argv' = Tail(argv)
                /\ cfg' = [cfg EXCEPT ![Attribute[Head(argv)]] = BoolV(TRUE)]
             \/ /\ Head(argv) \in WithValue
                /\ Len(argv) >= 2
                /\ argv' = Tail(Tail(argv))
                /\ cfg' = [cfg EXCEPT ![Attribute[Head(argv)]] = Assigned(Head(argv), argv[2])]
       /\ outcome' # "run" => cfg' = cfg

Returned ==
    outcome = "done" =>
       /\ argv = << >>
       /\ \A o \in WithValue, a, b \in Tokens :
             cli = << o, a, o, b >> => cfg[Attribute[o]] = Assigned(o, b)

\* C10 as stated: parse() ends, and it returns on the empty list, or exits with
\* status 1 at the first token that is not a recognised option or lacks its
\* value, or exits with status 0 at -h; every iteration removes a token.
C10_ParseOutcomes ==
    /\ [](/\ outcome \in {"run", "done", "exit0", "exit1"}
          /\ Returned
          /\ outcome = "exit1" => StoppedAtUnparsed
          /\ outcome = "exit0" => StoppedAtHelp)
    /\ [][IterationAssigns]_vars
    /\ <>(outcome # "run")

\* C10 amended: as stated, with a fourth outcome: an uncaught ValueError at the
\* first int or float option whose value is not a number.
C10_ParseOutcomesOrValueError ==
    /\ [](/\ outcome \in {"run", "done", "exit0", "exit1", "raise"}
          /\ Returned
          /\ outcome = "exit1" => StoppedAtUnparsed
          /\ outcome = "exit0" => StoppedAtHelp
          /\ outcome = "raise" => StoppedAtBadNumber)
    /\ [][IterationAssigns]_vars
    /\ <>(outcome # "run")

\* C10 witness: -epoch x ends parse() with a ValueError, both tokens popped
C10_Witness ==
    /\ outcome = "raise"
    /\ cli = << "-debug", "-epoch", "x", "-q" >>
    /\ argv = << "-q" >>
    /\ cfg.debug = BoolV(TRUE)

====
